---------------------------- MODULE Spec2Model ----------------------------
(***************************************************************************)
(* Agri-AI: the browser client of a remote plant-health classifier.        *)
(*                                                                         *)
(* The module models                                                       *)
(*   - the Transport Client (services/api.ts in its versions: the single   *)
(*     request analyzeImage and the retrying analyzeImage, checkHealth),   *)
(*   - the Contract Schema (PredictResponseSchema in its two profiles),    *)
(*   - the Label Registry (utils/metadata.ts),                             *)
(*   - the Decision Engine (components/AnalysisResult in its whitelist     *)
(*     and sentinel profiles, utils/domain.ts),                            *)
(*   - the error mapper (utils/errorMapper), the two applications (App     *)
(*     with components/FileUpload.tsx, AgriScanApp of App.tsx) with the    *)
(*     preview object URLs and the history kept in localStorage.           *)
(*                                                                         *)
(* Conventions.  A JavaScript string that the code inspects character by   *)
(* character (a label) is a sequence of one-character strings; a string    *)
(* the code only passes on (a message) is a TLA+ string.  A JSON object is *)
(* a record whose DOMAIN is the set of keys present; JSON null is Null.    *)
(* A confidence is an integer number of thousandths (0.55 is 550).  An     *)
(* optional value (undefined or v) is <<>> or <<v>>.                       *)
(***************************************************************************)
EXTENDS Integers, Sequences, FiniteSets, TLC

VARIABLES
    \* ---- deployment ----
    schema,      \* the PredictResponseSchema in use: "label" | "status"
    client,      \* the services/api.ts in use: "retry" | "single" | "eager"
    baseUrl,     \* the environment supplies VITE_API_BASE_URL
    \* ---- Transport Client: module initialisation ----
    loaded,      \* "pending" | "ok" | "threw"
    \* ---- Transport Client: one analyzeImage call ----
    pc,          \* "idle" | "inflight" | "delay" | "done" | "failed"
    attempt,     \* the loop variable of the retry loop
    requests,    \* number of POST /predict requests issued by the call
    responses,   \* the answers received so far, in order
    lastError,   \* <<>> or <<the normalized error of the last failed attempt>>
    returned,    \* <<>> or <<the value analyzeImage resolved with>>
    thrown,      \* <<>> or <<the error analyzeImage rejected with>>
    \* ---- Transport Client: one checkHealth call ----
    hpc,         \* "idle" | "inflight" | "done"
    probe,       \* <<>> or <<the answer GET /health ended with>>
    health,      \* <<>> or <<the value checkHealth resolved with>>
    \* ---- utils/metadata.ts, module state ----
    trainedCrops,    \* <<>> (null) or <<the Set of trained crop labels>>
    \* ---- App ----
    mounts,          \* how many times App has been mounted
    mpc,             \* fetchMetadata of the current mount: "idle" | "inflight" | "settled"
    lastMetadata,    \* history: <<>> or <<the argument of the latest createMetadataLookup>>
    metadataLookup,  \* state: <<>> (null) or <<the MetadataLookup>>
    loading,         \* state
    result,          \* state: <<>> (null) or <<the PredictResponse>>
    view,            \* what the interactive area rendered last
    \* ---- the browser's object URL store ----
    created,         \* URL.createObjectURL calls so far; the URLs are 1..created
    revoked,         \* revoked[u]: URL.revokeObjectURL(u) calls so far
    \* ---- components/FileUpload.tsx (the FileUpload of App) ----
    preview,         \* state: <<>> (null or not mounted) or <<the URL>>
    \* ---- AgriScanApp (App.tsx) ----
    scanMounted,     \* AgriScanApp is mounted
    selectedFile,    \* state: FALSE (null) or TRUE (a File)
    previewUrl,      \* state: <<>> (null) or <<the URL>>
    mutation,        \* analysisMutation: [status, data]
    \* ---- utils/domain.ts: formatConfidence ----
    formatted,       \* <<>> or <<[value, percent]>>: the latest call
    \* ---- localStorage ----
    scanHistory,     \* the item 'scan_history': absent, unreadable or a list
    storageWritable  \* setItem succeeds (no quota or access error)

tvars == <<pc, attempt, requests, responses, lastError, returned, thrown>>

hvars == <<hpc, probe, health>>

avars == <<trainedCrops, mounts, mpc, lastMetadata, metadataLookup, loading,
           result, view>>

dvars == <<schema, client, baseUrl>>

mvars == <<loaded>>

fvars == <<formatted>>

lvars == <<scanHistory, storageWritable>>

uvars == <<created, revoked, preview>>

svars == <<scanMounted, selectedFile, previewUrl, mutation>>

vars == <<dvars, mvars, tvars, hvars, avars, uvars, svars, fvars, lvars>>

-----------------------------------------------------------------------------
(* JSON values and labels *)

Null == [null |-> TRUE]

Has(o, k) == k \in DOMAIN o

\* Labels used by the responses of the modelled server.
Tomato == <<"T", "o", "m">>
Blight == <<"b", "l">>
Healthy == <<"H", "e", "a", "l", "t", "h", "y">>
Diseased == <<"D", "i", "s", "e", "a", "s", "e", "d">>

-----------------------------------------------------------------------------
(* Contract Schema *)

\* z.number().min(0).max(1)
\* A range check that would let every number through.
InUnitRangeClamped(v) == TRUE

InUnitRange(v) == v >= 0 /\ v <= 1000

\* PredictionConfidenceSchema: { label, confidence in [0,1], class_id? }
PredictionConfidenceOk(o) ==
    /\ o # Null
    /\ Has(o, "label")
    /\ Has(o, "confidence")
    /\ InUnitRange(o.confidence)

HealthStatusEnum == {"diseased", "healthy", "non_crop"}

\* HealthPredictionSchema: { status in enum, probability in [0,1] }
HealthPredictionOk(o) ==
    /\ o # Null
    /\ Has(o, "status")
    /\ o.status \in HealthStatusEnum
    /\ Has(o, "probability")
    /\ InUnitRange(o.probability)

\* z.object strips the keys the schema does not name.
StripTo(o, keys) == [k \in (DOMAIN o) \cap keys |-> o[k]]

PredictionConfidenceKeys == {"label", "confidence", "class_id"}
HealthPredictionKeys == {"status", "probability"}
PredictResponseKeys == {"health", "crop", "disease", "processing_time_ms"}

\* PredictResponseSchema, label profile: disease is nullable and optional.
PredictResponseLabelOk(body) ==
    /\ Has(body, "health") /\ PredictionConfidenceOk(body.health)
    /\ Has(body, "crop") /\ PredictionConfidenceOk(body.crop)
    /\ Has(body, "disease") =>
          (body.disease = Null \/ PredictionConfidenceOk(body.disease))

\* A status profile whose disease is nullable and optional.
PredictResponseStatusOptional(body) ==
    /\ Has(body, "health") /\ HealthPredictionOk(body.health)
    /\ Has(body, "crop") /\ PredictionConfidenceOk(body.crop)
    /\ Has(body, "disease") =>
          (body.disease = Null \/ PredictionConfidenceOk(body.disease))

\* PredictResponseSchema, status profile: disease is nullable, not optional.
PredictResponseStatusOk(body) ==
    /\ Has(body, "health") /\ HealthPredictionOk(body.health)
    /\ Has(body, "crop") /\ PredictionConfidenceOk(body.crop)
    /\ Has(body, "disease")
    /\ (body.disease = Null \/ PredictionConfidenceOk(body.disease))

SchemaOk(sch, body) ==
    IF sch = "label" THEN PredictResponseLabelOk(body)
                     ELSE PredictResponseStatusOk(body)

\* The value PredictResponseSchema.parse returns for a body that conforms.
Parsed(sch, body) ==
    [k \in (DOMAIN body) \cap PredictResponseKeys |->
        IF k = "processing_time_ms" THEN body[k]
        ELSE IF body[k] = Null THEN Null
        ELSE IF k = "health" /\ sch = "status"
             THEN StripTo(body[k], HealthPredictionKeys)
        ELSE StripTo(body[k], PredictionConfidenceKeys)]

-----------------------------------------------------------------------------
(* Transport Client: the answers of the server *)

\* Bodies of a 200 answer of POST /predict.
BodyLabel ==
    [health |-> [label |-> Healthy, confidence |-> 950],
     crop |-> [label |-> Tomato, confidence |-> 990],
     debug |-> TRUE]

BodyStatus ==
    [health |-> [status |-> "diseased", probability |-> 920],
     crop |-> [label |-> Tomato, confidence |-> 990],
     disease |-> [label |-> Blight, confidence |-> 870]]

BodyStatusNull ==
    [health |-> [status |-> "healthy", probability |-> 950],
     crop |-> [label |-> Tomato, confidence |-> 600],
     disease |-> Null]

BodyOutOfRange ==
    [health |-> [label |-> Healthy, confidence |-> 950,
                 status |-> "healthy", probability |-> 950],
     crop |-> [label |-> Tomato, confidence |-> 1500],
     disease |-> Null]

SuccessBodies == {BodyLabel, BodyStatus, BodyStatusNull, BodyOutOfRange}

\* Bodies of an error answer: FastAPI's { detail } or something else.
DetailText == "File too large"
ErrorBodies == {[detail |-> DetailText], [html |-> TRUE]}

ErrorStatuses == {404, 413, 429, 500, 502, 503}

\* What one request can end with: an HTTP answer, no answer (network
\* failure), or the 45 s timeout.
Http(status, body) == [kind |-> "http", status |-> status, body |-> body]
NetworkFailure == [kind |-> "network", status |-> 0, body |-> Null]
Timeout == [kind |-> "timeout", status |-> 0, body |-> Null]

Answers ==
    {Http(200, b) : b \in SuccessBodies}
        \cup {Http(s, b) : s \in ErrorStatuses, b \in ErrorBodies}
        \cup {NetworkFailure, Timeout}

-----------------------------------------------------------------------------
(* Transport Client: errors *)

MsgModelLoading == "Model is still loading. Please wait and try again."
MsgNotConfigured == "Backend URL not configured"
MsgRequestFailed == "Request failed with status code"
MsgNetworkError == "Network Error"
MsgTimeout == "timeout of 45000ms exceeded"
MsgZodIssues == "[zod issues]"
MsgFailedAfterRetries == "Failed to analyze image after retries"

\* error.message.includes('Model is still loading')
IncludesModelLoading(text) == text \in {MsgModelLoading}

\* An error value: its class, its message (the text and, for axios' status
\* message, the status code in it), its own status property, and the
\* response an AxiosError carries.
Error(name, text, code, status, response) ==
    [name |-> name, text |-> text, code |-> code, status |-> status,
     response |-> response]

PlainError(text) == Error("Error", text, <<>>, <<>>, <<>>)

\* The AxiosError axios rejects with for an answer validateStatus refuses.
AxiosStatusError(a) ==
    Error("AxiosError", MsgRequestFailed, <<a.status>>, <<>>,
          <<[status |-> a.status, data |-> a.body]>>)

\* The AxiosError of a request that got no answer.
AxiosNoResponse(a) ==
    Error("AxiosError",
          IF a.kind = "timeout" THEN MsgTimeout ELSE MsgNetworkError,
          <<>>, <<>>, <<>>)

ZodError == Error("ZodError", MsgZodIssues, <<>>, <<>>, <<>>)

\* error.response?.data?.detail, when it is a non-empty string
DetailOf(e) ==
    IF e.response # <<>> /\ Has(e.response[1].data, "detail")
                         /\ e.response[1].data.detail # ""
    THEN <<e.response[1].data.detail>>
    ELSE <<>>

\* normalizeError of the versions that attach the status.
normalizeError(e) ==
    IF e.name = "AxiosError"
    THEN Error("Error",
               IF DetailOf(e) # <<>> THEN DetailOf(e)[1] ELSE e.text,
               IF DetailOf(e) # <<>> THEN <<>> ELSE e.code,
               IF e.response # <<>> THEN <<e.response[1].status>> ELSE <<>>,
               <<>>)
    ELSE e

-----------------------------------------------------------------------------
(* utils/errorMapper: mapApiErrorToMessage *)

MsgOffline ==
    "Unable to connect to the server. Please check your internet connection."
MsgOverload ==
    "The AgriScan service is currently experiencing high load. Please try again in a moment."
MsgTooLarge ==
    "The image file is too large. Please use an image smaller than 10MB."
MsgRateLimited ==
    "You're sending requests too quickly. Please wait a moment."

UserFriendlyError(message, severity, action) ==
    [message |-> message, severity |-> severity, action |-> action]

\* axios.isAxiosError(error): true of the errors axios creates, not of an
\* Error made with new Error(message).
isAxiosError(e) == e.name = "AxiosError"

\* The fallback takes the message of the error as it is.
mapApiErrorToMessage(e) ==
    IF isAxiosError(e) /\ e.response = <<>>
    THEN UserFriendlyError(MsgOffline, "warning", <<"Retry">>)
    ELSE IF isAxiosError(e) /\ e.response[1].status >= 500
    THEN UserFriendlyError(MsgOverload, "error", <<"Retry">>)
    ELSE IF isAxiosError(e) /\ e.response[1].status = 413
    THEN UserFriendlyError(MsgTooLarge, "warning", <<>>)
    ELSE IF isAxiosError(e) /\ e.response[1].status = 429
    THEN UserFriendlyError(MsgRateLimited, "warning", <<>>)
    ELSE UserFriendlyError(e.text, "error", <<>>)

\* normalizeError of the version that throws at module level: the
\* message only.
normalizeErrorMessageOnly(e) ==
    IF e.name = "AxiosError"
    THEN Error("Error",
               IF DetailOf(e) # <<>> THEN DetailOf(e)[1] ELSE e.text,
               IF DetailOf(e) # <<>> THEN <<>> ELSE e.code,
               <<>>, <<>>)
    ELSE e

normalizeErrorOf(cl, e) ==
    IF cl = "eager" THEN normalizeErrorMessageOnly(e) ELSE normalizeError(e)

-----------------------------------------------------------------------------
(* Transport Client: module initialisation *)

MsgNotDefined == "VITE_API_BASE_URL is not defined"

\* const API_BASE_URL = getBaseUrl(): the version that warns and returns
\* '' and the version that throws when the variable is missing.
getBaseUrl(cl, env) ==
    IF env THEN [t |-> "return", v |-> TRUE]
    ELSE IF cl = "eager"
    THEN [t |-> "throw", v |-> PlainError(MsgNotDefined)]
    ELSE [t |-> "return", v |-> FALSE]

\* The module of the Transport Client is evaluated.
LoadModule ==
    /\ loaded = "pending"
    /\ loaded' = IF getBaseUrl(client, baseUrl).t = "throw" THEN "threw"
                 ELSE "ok"
    /\ UNCHANGED <<dvars, tvars, hvars, avars, uvars, svars, fvars, lvars>>

-----------------------------------------------------------------------------
(* Transport Client: analyzeImage *)

\* const maxRetries = 3
maxRetries == 3

\* validateStatus: (status) => status < 500, of the retrying analyzeImage
validateStatus(status) == status < 500

\* axios' default validateStatus, used by the single-request analyzeImage
validateStatusDefault(status) == status >= 200 /\ status < 300

\* What the body of the try block does with the answer `a` of attempt
\* `att`: it returns a value, throws an error, or (the 503 branch) waits
\* and continues with the next attempt.
TryRetry(a, att) ==
    IF a.kind # "http"
    THEN [t |-> "throw", v |-> AxiosNoResponse(a)]
    ELSE IF ~validateStatus(a.status)
    THEN [t |-> "throw", v |-> AxiosStatusError(a)]
    ELSE IF a.status = 503
    THEN IF att < maxRetries
         THEN [t |-> "continue", v |-> Null]
         ELSE [t |-> "throw", v |-> PlainError(MsgModelLoading)]
    ELSE IF SchemaOk(schema, a.body)
    THEN [t |-> "return", v |-> Parsed(schema, a.body)]
    ELSE [t |-> "throw", v |-> ZodError]

\* A catch block that never waits.
RetryAfterErrorNoDelay(att, e) == FALSE

\* The condition of the catch block under which it waits 2 s and continues;
\* otherwise the loop goes on to its next iteration at once.
RetryAfterError(att, e) ==
    att < maxRetries /\ ~IncludesModelLoading(e.text)

\* throw lastError || new Error("Failed to analyze image after retries")
FinalError(last) ==
    IF last # <<>> THEN last[1] ELSE PlainError(MsgFailedAfterRetries)

CallUnchanged ==
    UNCHANGED <<dvars, mvars, hvars, avars, uvars, svars, fvars, lvars>>

\* A loop header that stops one attempt early (attempt < maxRetries).
EnterAttemptOffByOne(att, last) ==
    /\ attempt' = att
    /\ lastError' = last
    /\ IF att < maxRetries
       THEN /\ requests' = requests + 1
            /\ pc' = "inflight"
            /\ thrown' = thrown
       ELSE /\ requests' = requests
            /\ pc' = "failed"
            /\ thrown' = <<FinalError(last)>>

\* The loop header, entered with the loop variable at `att` and lastError
\* at `last`: the next request is issued, or the loop is left and the call
\* rejects.
EnterAttempt(att, last) ==
    /\ attempt' = att
    /\ lastError' = last
    /\ IF att <= maxRetries
       THEN /\ requests' = requests + 1
            /\ pc' = "inflight"
            /\ thrown' = thrown
       ELSE /\ requests' = requests
            /\ pc' = "failed"
            /\ thrown' = <<FinalError(last)>>

\* analyzeImage(file) is called: without a base URL it rejects at once,
\* otherwise the first request is issued.
Call ==
    /\ loaded = "ok"
    /\ pc = "idle"
    /\ CallUnchanged
    /\ UNCHANGED <<responses, returned>>
    /\ IF ~baseUrl
       THEN /\ pc' = "failed"
            /\ thrown' = <<PlainError(MsgNotConfigured)>>
            /\ UNCHANGED <<attempt, requests, lastError>>
       ELSE IF client = "retry"
       THEN EnterAttempt(1, <<>>)
       ELSE /\ pc' = "inflight"
            /\ requests' = requests + 1
            /\ UNCHANGED <<attempt, lastError, thrown>>

\* The retrying analyzeImage: the request of the current attempt ends with
\* `a`, and the call runs on to its next suspension point.
AnswerRetry(a) ==
    /\ pc = "inflight"
    /\ client = "retry"
    /\ CallUnchanged
    /\ responses' = Append(responses, a)
    /\ LET o == TryRetry(a, attempt) IN
       CASE o.t = "return" ->
              /\ pc' = "done"
              /\ returned' = <<o.v>>
              /\ UNCHANGED <<attempt, requests, lastError, thrown>>
         [] o.t = "continue" ->
              /\ pc' = "delay"
              /\ UNCHANGED <<attempt, requests, lastError, returned, thrown>>
         [] o.t = "throw" ->
              /\ returned' = returned
              /\ IF RetryAfterError(attempt, o.v)
                 THEN /\ pc' = "delay"
                      /\ lastError' = <<normalizeError(o.v)>>
                      /\ UNCHANGED <<attempt, requests, thrown>>
                 ELSE EnterAttempt(attempt + 1, <<normalizeError(o.v)>>)

\* The 2 s delay between two attempts has elapsed: continue.
DelayElapsed ==
    /\ pc = "delay"
    /\ CallUnchanged
    /\ UNCHANGED <<responses, returned>>
    /\ EnterAttempt(attempt + 1, lastError)

\* The single-request analyzeImage: the request ends with `a`.
AnswerSingle(a) ==
    /\ pc = "inflight"
    /\ client \in {"single", "eager"}
    /\ CallUnchanged
    /\ responses' = Append(responses, a)
    /\ UNCHANGED <<attempt, requests, lastError>>
    /\ IF a.kind = "http" /\ validateStatusDefault(a.status)
          /\ SchemaOk(schema, a.body)
       THEN /\ pc' = "done"
            /\ returned' = <<Parsed(schema, a.body)>>
            /\ thrown' = thrown
       ELSE /\ pc' = "failed"
            /\ returned' = returned
            /\ thrown' = <<normalizeErrorOf(client,
                  IF a.kind # "http" THEN AxiosNoResponse(a)
                  ELSE IF ~validateStatusDefault(a.status)
                  THEN AxiosStatusError(a)
                  ELSE ZodError)>>

-----------------------------------------------------------------------------
(* Transport Client: checkHealth *)

HealthAnswers ==
    {Http(st, Null) : st \in {200, 204, 404, 500, 503}}
        \cup {NetworkFailure, Timeout}

Offline == [status |-> "offline", ready |-> FALSE]

\* The try/catch of the checkHealth that returns a HealthResponse, given
\* what GET /health ended with.
checkHealthResponse(a) ==
    IF a.kind # "http" \/ ~validateStatus(a.status)
    THEN Offline
    ELSE IF a.status = 200 THEN [status |-> "ok", ready |-> TRUE]
    ELSE IF a.status = 503 THEN [status |-> "loading", ready |-> FALSE]
    ELSE Offline

\* The try/catch of the checkHealth that returns a boolean.
checkHealthBoolean(a) ==
    IF a.kind # "http" \/ ~validateStatusDefault(a.status)
    THEN [ready |-> FALSE]
    ELSE [ready |-> (a.status = 200)]

ProbeUnchanged ==
    UNCHANGED <<dvars, mvars, tvars, avars, uvars, svars, fvars, lvars>>

\* checkHealth() is called: without a base URL it resolves at once.
Probe ==
    /\ loaded = "ok"
    /\ hpc = "idle"
    /\ ProbeUnchanged
    /\ probe' = probe
    /\ IF ~baseUrl
       THEN /\ hpc' = "done"
            /\ health' = <<IF client = "retry" THEN Offline
                           ELSE [ready |-> FALSE]>>
       ELSE /\ hpc' = "inflight"
            /\ health' = health

\* GET /health ends with `a`.
ProbeAnswer(a) ==
    /\ hpc = "inflight"
    /\ ProbeUnchanged
    /\ hpc' = "done"
    /\ probe' = <<a>>
    /\ health' = <<IF client = "retry" THEN checkHealthResponse(a)
                   ELSE checkHealthBoolean(a)>>

-----------------------------------------------------------------------------
(* Strings *)

LowerOf ==
    ("A" :> "a") @@ ("B" :> "b") @@ ("C" :> "c") @@ ("D" :> "d")
    @@ ("E" :> "e") @@ ("H" :> "h") @@ ("I" :> "i") @@ ("L" :> "l")
    @@ ("M" :> "m")
    @@ ("N" :> "n") @@ ("O" :> "o") @@ ("P" :> "p") @@ ("R" :> "r")
    @@ ("S" :> "s") @@ ("T" :> "t") @@ ("W" :> "w") @@ ("Y" :> "y")

UpperOf == [c \in {LowerOf[u] : u \in DOMAIN LowerOf} |->
               CHOOSE u \in DOMAIN LowerOf : LowerOf[u] = c]

\* \w of a regular expression, over the letters the labels use
IsWordChar(c) == c \in DOMAIN LowerOf \cup DOMAIN UpperOf \cup {"_"}

\* String.prototype.toLowerCase
toLowerCase(str) ==
    [i \in 1..Len(str) |->
        IF str[i] \in DOMAIN LowerOf THEN LowerOf[str[i]] ELSE str[i]]

\* [\s_-]
IsSeparator(c) == c \in {" ", "_", "-"}

RECURSIVE CollapseSeparators(_)
\* str.replace(/[\s_-]+/g, '_')
CollapseSeparators(str) ==
    IF str = <<>> THEN <<>>
    ELSE IF IsSeparator(Head(str))
    THEN IF Len(str) > 1 /\ IsSeparator(str[2])
         THEN CollapseSeparators(Tail(str))
         ELSE <<"_">> \o CollapseSeparators(Tail(str))
    ELSE <<Head(str)>> \o CollapseSeparators(Tail(str))

\* normalizeKey: label.toLowerCase().replace(/[\s_-]+/g, '_')
normalizeKey(label) == CollapseSeparators(toLowerCase(label))

\* formatLabel: label.replace(/_/g, ' ').toLowerCase()
\*                   .replace(/\b\w/g, c => c.toUpperCase())
formatLabel(label) ==
    LET spaced == [i \in 1..Len(label) |->
                      IF label[i] = "_" THEN " " ELSE label[i]]
        low == toLowerCase(spaced)
    IN  [i \in 1..Len(low) |->
            IF /\ IsWordChar(low[i])
               /\ (i = 1 \/ ~IsWordChar(low[i - 1]))
               /\ low[i] \in DOMAIN UpperOf
            THEN UpperOf[low[i]]
            ELSE low[i]]

-----------------------------------------------------------------------------
(* Label Registry: utils/metadata.ts *)

\* Labels of the catalog and of predictions.
TomatoLower == <<"t", "o", "m">>
BellPepper == <<"B", "_", "P">>
BellPepperSpaced == <<"B", " ", "P">>
Wheat == <<"W", "h">>
NON_CROP == <<"N", "O", "N", "_", "C", "R", "O", "P">>

Range(f) == {f[i] : i \in DOMAIN f}

EmptyMap == [k \in {} |-> Null]

\* initTrainedCrops(crops): the new value of the module's trainedCrops
initTrainedCrops(crops) ==
    IF crops # <<>>
    THEN <<{toLowerCase(c.label) : c \in Range(crops[1])}>>
    ELSE <<>>

\* A hasTrainedCropMetadata that takes an empty Set for a whitelist.
hasTrainedCropMetadataNullOnly == trainedCrops # <<>>

\* hasTrainedCropMetadata()
hasTrainedCropMetadata ==
    trainedCrops # <<>> /\ Cardinality(trainedCrops[1]) > 0

RECURSIVE buildLookupMapFirstWins(_)
\* A buildLookupMap that keeps the first item of a key.
buildLookupMapFirstWins(items) ==
    IF items = <<>> THEN EmptyMap
    ELSE LET n == Len(items)
             item == items[n]
             info == [displayName |-> formatLabel(item.label),
                      description |-> IF Has(item, "description")
                                      THEN <<item.description>> ELSE <<>>]
         IN  buildLookupMapFirstWins(SubSeq(items, 1, n - 1))
                 @@ (normalizeKey(item.label) :> info)

RECURSIVE buildLookupMap(_)
\* buildLookupMap(items): Map.set in the order of the items, so that the
\* last item of a key wins.
buildLookupMap(items) ==
    IF items = <<>> THEN EmptyMap
    ELSE LET n == Len(items)
             item == items[n]
             info == [displayName |-> formatLabel(item.label),
                      description |-> IF Has(item, "description")
                                      THEN <<item.description>> ELSE <<>>]
         IN  (normalizeKey(item.label) :> info)
                 @@ buildLookupMap(SubSeq(items, 1, n - 1))

\* The fields of new MetadataLookup(metadata); metadata is <<>> for null.
MetadataLookup(metadata) ==
    [cropMap |-> IF metadata # <<>>
                 THEN buildLookupMap(metadata[1].crops) ELSE EmptyMap,
     diseaseMap |-> IF metadata # <<>>
                    THEN buildLookupMap(metadata[1].diseases) ELSE EmptyMap,
     healthMap |-> IF metadata # <<>>
                   THEN buildLookupMap(metadata[1].health_statuses)
                   ELSE EmptyMap]

\* createMetadataLookup(metadata): the constructor runs, with its effect on
\* the module's trainedCrops; the new object is MetadataLookup(metadata).
createMetadataLookup(metadata) ==
    /\ trainedCrops' = IF metadata # <<>>
                       THEN initTrainedCrops(<<metadata[1].crops>>)
                       ELSE trainedCrops
    /\ lastMetadata' = metadata

\* The fallback of getCropInfo, getDiseaseInfo and getHealthInfo.
InfoIn(map, label) ==
    IF normalizeKey(label) \in DOMAIN map
    THEN map[normalizeKey(label)]
    ELSE [displayName |-> formatLabel(label)]

getCropInfo(lookup, label) == InfoIn(lookup.cropMap, label)

getDiseaseInfo(lookup, label) == InfoIn(lookup.diseaseMap, label)

\* An argument of type string | undefined | null.
JsNull == [type |-> "null"]
JsUndefined == [type |-> "undefined"]
JsString(str) == [type |-> "string", value |-> str]

\* !label: null, undefined and the empty string are falsy
Falsy(label) ==
    label.type \in {"null", "undefined"} \/ label.value = <<>>

\* An isKnownCrop that fails open itself when there is no whitelist.
isKnownCropFailOpen(label) ==
    IF Falsy(label) THEN FALSE
    ELSE IF trainedCrops = <<>> \/ trainedCrops[1] = {} THEN TRUE
    ELSE toLowerCase(label.value) \in trainedCrops[1]

\* The standalone isKnownCrop(label), which reads the module's trainedCrops.
isKnownCrop(label) ==
    IF Falsy(label) \/ trainedCrops = <<>> THEN FALSE
    ELSE toLowerCase(label.value) \in trainedCrops[1]

\* MetadataLookup.isKnownCrop(label)
isKnownCropMethod(lookup, label) ==
    normalizeKey(label) \in DOMAIN lookup.cropMap

-----------------------------------------------------------------------------
(* Decision Engine: utils/domain.ts *)

\* export const UI_MIN_CROP_CONFIDENCE = 0.55
UI_MIN_CROP_CONFIDENCE == 550

\* const NEGATIVE_CLASS_LABEL = 'healthy'
NEGATIVE_CLASS_LABEL == <<"h", "e", "a", "l", "t", "h", "y">>

\* An isPlantHealthy that compares without lower-casing.
isPlantHealthyCaseSensitive(healthLabel) == healthLabel = NEGATIVE_CLASS_LABEL

\* isPlantHealthy(healthLabel)
isPlantHealthy(healthLabel) == toLowerCase(healthLabel) = NEGATIVE_CLASS_LABEL

\* a value is truthy: present and not null
Truthy(o, k) == Has(o, k) /\ o[k] # Null

\* getActiveDisease(data)
getActiveDisease(data) ==
    IF isPlantHealthy(data.health.label) THEN Null
    ELSE IF Truthy(data, "disease") THEN data.disease ELSE Null

\* label.replace(/_/g, ' ')
\* The thousandths v for which the binary64 product v * 100 is the double
\* just below n + 0.5 although the decimal product is n + 0.5 (0.285 * 100
\* is 28.499999999999996).  For every other thousandth in [0,1] Math.round
\* of the binary64 product equals the rounding of the decimal product.
ProductBelowHalf == {145, 285, 565, 575}

\* formatConfidence: Math.max(0, Math.min(1, value)), then Math.round of
\* clamped * 100, which rounds the double it is given half up.  The
\* result is the number before the percent sign.
formatConfidence(value) ==
    LET clamped == IF value < 0 THEN 0
                   ELSE IF value > 1000 THEN 1000 ELSE value
    IN  IF clamped \in ProductBelowHalf
        THEN (clamped * 100) \div 1000
        ELSE (clamped * 100 + 500) \div 1000

\* Confidence values from -0.3 to 1.5, in thousandths.
ConfidenceInputs == (0 - 300)..1500

\* formatConfidence(value) is called.
ShowConfidence(value) ==
    /\ formatted' = <<[value |-> value, percent |-> formatConfidence(value)]>>
    /\ UNCHANGED <<dvars, mvars, tvars, hvars, avars, uvars, svars, lvars>>

SpacesForUnderscores(label) ==
    [i \in 1..Len(label) |-> IF label[i] = "_" THEN " " ELSE label[i]]

-----------------------------------------------------------------------------
(* Decision Engine: components/AnalysisResult, whitelist profile *)

\* const isTrained = metadataReady ? isKnownCrop(cropLabel) : true
\* const cropLabel = result.crop?.label
cropLabel(r) ==
    IF Has(r, "crop") THEN JsString(r.crop.label) ELSE JsUndefined

isTrained(r) ==
    IF hasTrainedCropMetadata THEN isKnownCrop(cropLabel(r)) ELSE TRUE

\* const hasEnoughConfidence = cropConfidence >= UI_MIN_CROP_CONFIDENCE
hasEnoughConfidence(r) == r.crop.confidence >= UI_MIN_CROP_CONFIDENCE

\* operand A of isUnsupportedImage: the domain block
DomainBlock(r) == ~isTrained(r) /\ hasTrainedCropMetadata

\* operand B of isUnsupportedImage: the quality block
QualityBlock(r) == ~hasEnoughConfidence(r)

\* An isUnsupportedImage without the domain block.
isUnsupportedImageQualityOnly(r) == QualityBlock(r)

\* const isUnsupportedImage =
\*     (!isTrained && metadataReady) || !hasEnoughConfidence
isUnsupportedImage(r) == DomainBlock(r) \/ QualityBlock(r)

\* The operand that decides isUnsupportedImage, in evaluation order.
blockedBy(r) ==
    IF DomainBlock(r) THEN "domain"
    ELSE IF QualityBlock(r) THEN "quality"
    ELSE "none"

\* const isAmbiguousPrediction = cropConfidence < 0.98
\* An ambiguity band that includes its upper end.
isAmbiguousPredictionInclusive(r) == r.crop.confidence <= 980

isAmbiguousPrediction(r) == r.crop.confidence < 980

\* What the component renders for the result r and the prop lookup
\* (<<>> for undefined).
AnalysisResultWhitelist(r, lookup) ==
    IF isUnsupportedImage(r)
    THEN [card |-> "unsupported", cropName |-> <<>>, diseaseName |-> <<>>,
          diseaseSection |-> FALSE, disclaimer |-> FALSE]
    ELSE
      LET healthy == isPlantHealthy(r.health.label)
          activeDisease == getActiveDisease(r)
          cropInfo ==
              IF lookup # <<>> THEN getCropInfo(lookup[1], r.crop.label)
              ELSE [displayName |-> SpacesForUnderscores(r.crop.label)]
          diseaseInfo ==
              IF activeDisease # Null /\ lookup # <<>>
              THEN <<getDiseaseInfo(lookup[1], activeDisease.label)>>
              ELSE IF activeDisease # Null
              THEN <<[displayName |->
                         SpacesForUnderscores(activeDisease.label)]>>
              ELSE <<>>
      IN  [card |-> IF healthy THEN "healthy" ELSE "diseased",
           cropName |-> <<cropInfo.displayName>>,
           diseaseName |-> IF ~healthy /\ diseaseInfo # <<>>
                           THEN <<diseaseInfo[1].displayName>> ELSE <<>>,
           diseaseSection |-> ~healthy /\ diseaseInfo # <<>>,
           disclaimer |-> isAmbiguousPrediction(r)]

-----------------------------------------------------------------------------
(* Decision Engine: components/AnalysisResult, sentinel profile *)

\* An AnalysisResult of the sentinel profile without the NON_CROP state.
AnalysisResultSentinelNoSentinel(r) ==
    IF r.health.status = "healthy"
    THEN [card |-> "healthy", cropName |-> <<r.crop.label>>,
          diseaseName |-> <<>>, diseaseSection |-> FALSE,
          disclaimer |-> FALSE]
    ELSE IF r.health.status = "diseased" /\ Truthy(r, "disease")
    THEN [card |-> "diseased", cropName |-> <<r.crop.label>>,
          diseaseName |-> <<r.disease.label>>, diseaseSection |-> TRUE,
          disclaimer |-> FALSE]
    ELSE [card |-> "incomplete", cropName |-> <<>>, diseaseName |-> <<>>,
          diseaseSection |-> FALSE, disclaimer |-> FALSE]

\* An AnalysisResult of the sentinel profile without the final return.
AnalysisResultSentinelPartial(r) ==
    IF r.crop.label = NON_CROP
    THEN [card |-> "unsupported", cropName |-> <<>>, diseaseName |-> <<>>,
          diseaseSection |-> FALSE, disclaimer |-> FALSE]
    ELSE IF r.health.status = "healthy"
    THEN [card |-> "healthy", cropName |-> <<r.crop.label>>,
          diseaseName |-> <<>>, diseaseSection |-> FALSE,
          disclaimer |-> FALSE]
    ELSE IF r.health.status = "diseased" /\ Truthy(r, "disease")
    THEN [card |-> "diseased", cropName |-> <<r.crop.label>>,
          diseaseName |-> <<r.disease.label>>, diseaseSection |-> TRUE,
          disclaimer |-> FALSE]
    ELSE [card |-> "none", cropName |-> <<>>, diseaseName |-> <<>>,
          diseaseSection |-> FALSE, disclaimer |-> FALSE]

AnalysisResultSentinel(r) ==
    IF r.crop.label = NON_CROP
    THEN [card |-> "unsupported", cropName |-> <<>>, diseaseName |-> <<>>,
          diseaseSection |-> FALSE, disclaimer |-> FALSE]
    ELSE IF r.health.status = "healthy"
    THEN [card |-> "healthy", cropName |-> <<r.crop.label>>,
          diseaseName |-> <<>>, diseaseSection |-> FALSE,
          disclaimer |-> FALSE]
    ELSE IF r.health.status = "diseased" /\ Truthy(r, "disease")
    THEN [card |-> "diseased", cropName |-> <<r.crop.label>>,
          diseaseName |-> <<r.disease.label>>, diseaseSection |-> TRUE,
          disclaimer |-> FALSE]
    ELSE [card |-> "incomplete", cropName |-> <<>>, diseaseName |-> <<>>,
          diseaseSection |-> FALSE, disclaimer |-> FALSE]

-----------------------------------------------------------------------------
(* App: inputs *)

MaxMounts == 2
MaxCrops == 2

\* SemanticClass items of GET /metadata/classes
CatalogCrops ==
    {[id |-> "c1", label |-> Tomato],
     [id |-> "c2", label |-> TomatoLower, description |-> "a crop"],
     [id |-> "c3", label |-> BellPepper]}

RECURSIVE SeqsUpTo(_, _)
SeqsUpTo(S, n) ==
    IF n = 0 THEN {<<>>}
    ELSE SeqsUpTo(S, n - 1)
            \cup {Append(q, x) : q \in {t \in SeqsUpTo(S, n - 1) :
                                            Len(t) = n - 1}, x \in S}

\* The MetadataResponse values fetchMetadata can resolve with.
Catalogs ==
    {[crops |-> cs,
      diseases |-> <<[id |-> "d1", label |-> Blight]>>,
      health_statuses |-> <<>>] : cs \in SeqsUpTo(CatalogCrops, MaxCrops)}

CropLabels == {Tomato, TomatoLower, BellPepperSpaced, Wheat, NON_CROP}
CropConfidences == {549, 550, 979, 980}
CropPredictions ==
    {[label |-> l, confidence |-> c] : l \in CropLabels, c \in CropConfidences}

DiseasePrediction == [label |-> Blight, confidence |-> 870]

\* Bodies of POST /predict, per profile of the backend.
PredictBodies(sch) ==
    IF sch = "label"
    THEN LET hs == {[label |-> l, confidence |-> 950] :
                        l \in {Healthy, Diseased}}
         IN  {[health |-> h, crop |-> c] : h \in hs, c \in CropPredictions}
               \cup {[health |-> h, crop |-> c, disease |-> d] :
                        h \in hs, c \in CropPredictions,
                        d \in {Null, DiseasePrediction}}
    ELSE {[health |-> [status |-> st, probability |-> 950], crop |-> c,
           disease |-> d] :
              st \in HealthStatusEnum, c \in CropPredictions,
              d \in {Null, DiseasePrediction}}

\* The values analyzeImage can resolve with.
Predictions(sch) ==
    {Parsed(sch, b) : b \in {x \in PredictBodies(sch) : SchemaOk(sch, x)}}

-----------------------------------------------------------------------------
(* App *)

\* The interactive area of App: loading ? spinner : result ? AnalysisResult
\* : FileUpload.  Nothing is rendered before the first mount.
Render ==
    IF mounts = 0 THEN [screen |-> "none", shown |-> <<>>]
    ELSE IF loading THEN [screen |-> "loading", shown |-> <<>>]
    ELSE IF result # <<>>
    THEN [screen |-> "result",
          shown |-> <<IF schema = "label"
                      THEN AnalysisResultWhitelist(result[1], metadataLookup)
                      ELSE AnalysisResultSentinel(result[1])>>]
    ELSE [screen |-> "upload", shown |-> <<>>]

AppUnchanged ==
    UNCHANGED <<dvars, mvars, tvars, hvars, uvars, svars, fvars, lvars>>

\* App is mounted (again): its state starts from the initial values, the
\* module state of utils/metadata.ts stays, and the effect starts
\* fetchMetadata.
Mount ==
    /\ mounts < MaxMounts
    /\ mpc # "inflight"
    /\ ~loading
    /\ AppUnchanged
    /\ mounts' = mounts + 1
    /\ mpc' = "inflight"
    /\ metadataLookup' = <<>>
    /\ loading' = FALSE
    /\ result' = <<>>
    /\ UNCHANGED <<trainedCrops, lastMetadata>>
    /\ view' = Render'

\* fetchMetadata resolved with md: the then branch of the effect.
MetadataLoaded(md) ==
    /\ mpc = "inflight"
    /\ baseUrl
    /\ AppUnchanged
    /\ createMetadataLookup(<<md>>)
    /\ metadataLookup' = <<MetadataLookup(<<md>>)>>
    /\ mpc' = "settled"
    /\ UNCHANGED <<mounts, loading, result>>
    /\ view' = Render'

\* fetchMetadata rejected: the catch branch of the effect.
MetadataFailed ==
    /\ mpc = "inflight"
    /\ AppUnchanged
    /\ createMetadataLookup(<<>>)
    /\ metadataLookup' = <<MetadataLookup(<<>>)>>
    /\ mpc' = "settled"
    /\ UNCHANGED <<mounts, loading, result>>
    /\ view' = Render'

\* handleFileSelect up to its await: FileUpload is rendered only when
\* nothing is loading and no result is shown.
handleFileSelect ==
    /\ view.screen = "upload"
    /\ AppUnchanged
    /\ loading' = TRUE
    /\ UNCHANGED <<trainedCrops, mounts, mpc, lastMetadata, metadataLookup,
                   result>>
    /\ view' = Render'

\* handleFileSelect after analyzeImage resolved with data.
AnalyzeResolved(data) ==
    /\ loading
    /\ baseUrl
    /\ AppUnchanged
    /\ result' = <<data>>
    /\ loading' = FALSE
    /\ UNCHANGED <<trainedCrops, mounts, mpc, lastMetadata, metadataLookup>>
    /\ view' = Render'

\* handleFileSelect after analyzeImage rejected: a toast, and finally.
AnalyzeRejected ==
    /\ loading
    /\ AppUnchanged
    /\ loading' = FALSE
    /\ UNCHANGED <<trainedCrops, mounts, mpc, lastMetadata, metadataLookup,
                   result>>
    /\ view' = Render'

\* handleClear: the button of the result card.
handleClear ==
    /\ view.screen = "result"
    /\ AppUnchanged
    /\ result' = <<>>
    /\ UNCHANGED <<trainedCrops, mounts, mpc, lastMetadata, metadataLookup,
                   loading>>
    /\ view' = Render'

-----------------------------------------------------------------------------
(* components/FileUpload.tsx under App *)

MaxUrls == 3

\* onDrop with an accepted image: createObjectURL, setPreview, and
\* onFileSelect, which is App's handleFileSelect up to its await.  The
\* preview state lives as long as FileUpload is rendered; App renders the
\* spinner instead of FileUpload while loading.  clearFile, the only
\* revokeObjectURL of this FileUpload, belongs to no rendered element,
\* and FileUpload has no effect cleanup.
onDrop ==
    /\ view.screen = "upload"
    /\ created < MaxUrls
    /\ created' = created + 1
    /\ revoked' = Append(revoked, 0)
    /\ loading' = TRUE
    /\ UNCHANGED <<dvars, mvars, tvars, hvars, svars, fvars, lvars>>
    /\ UNCHANGED <<trainedCrops, mounts, mpc, lastMetadata, metadataLookup,
                   result>>
    /\ view' = Render'
    /\ preview' = IF view'.screen = "upload" THEN <<created'>> ELSE <<>>

-----------------------------------------------------------------------------
(* AgriScanApp (App.tsx) with its FileUpload *)

RevokeObjectURL(rev, u) == [rev EXCEPT ![u] = @ + 1]

\* The cleanup of the effect on [previewUrl], run when previewUrl changes
\* and on unmount, with the previewUrl of the render it belongs to.
EffectCleanup(rev, url) ==
    IF url # <<>> THEN RevokeObjectURL(rev, url[1]) ELSE rev

MutationIdle == [status |-> "idle", data |-> <<>>]

ScanUnchanged ==
    UNCHANGED <<dvars, mvars, tvars, hvars, avars, preview, fvars>>

ScanMount ==
    /\ ~scanMounted
    /\ ScanUnchanged /\ UNCHANGED lvars
    /\ scanMounted' = TRUE
    /\ selectedFile' = FALSE
    /\ previewUrl' = <<>>
    /\ mutation' = MutationIdle
    /\ UNCHANGED <<created, revoked>>

ScanUnmount ==
    /\ scanMounted
    /\ ScanUnchanged /\ UNCHANGED lvars
    /\ revoked' = EffectCleanup(revoked, previewUrl)
    /\ scanMounted' = FALSE
    /\ selectedFile' = FALSE
    /\ previewUrl' = <<>>
    /\ mutation' = MutationIdle
    /\ UNCHANGED created

\* handleFileSelect, reached from the dropzone of FileUpload, which is
\* rendered while no result is shown and no file is selected, and is
\* disabled while the mutation is pending.
ScanHandleFileSelect ==
    /\ scanMounted
    /\ mutation.data = <<>> /\ ~selectedFile /\ mutation.status # "pending"
    /\ created < MaxUrls
    /\ ScanUnchanged /\ UNCHANGED lvars
    /\ selectedFile' = TRUE
    /\ created' = created + 1
    /\ previewUrl' = <<created'>>
    /\ revoked' = Append(EffectCleanup(revoked, previewUrl), 0)
    /\ mutation' = MutationIdle
    /\ UNCHANGED scanMounted

\* handleClear, reached from the remove button of FileUpload (a file is
\* selected, not disabled) and from onRetry of AnalysisResult.  The state
\* change then runs the effect cleanup of the previous previewUrl.
ScanHandleClear ==
    /\ scanMounted
    /\ \/ mutation.data = <<>> /\ selectedFile /\ mutation.status # "pending"
       \/ mutation.data # <<>>
    /\ ScanUnchanged /\ UNCHANGED lvars
    /\ selectedFile' = FALSE
    /\ revoked' = EffectCleanup(EffectCleanup(revoked, previewUrl),
                                previewUrl)
    /\ previewUrl' = <<>>
    /\ mutation' = MutationIdle
    /\ UNCHANGED <<scanMounted, created>>

\* handleAnalyze, reached from the action bar and from the error state.
ScanHandleAnalyze ==
    /\ scanMounted
    /\ mutation.data = <<>> /\ selectedFile /\ mutation.status # "pending"
    /\ ScanUnchanged /\ UNCHANGED lvars
    /\ mutation' = [status |-> "pending", data |-> <<>>]
    /\ UNCHANGED <<scanMounted, selectedFile, previewUrl, created, revoked>>

\* localStorage.getItem('scan_history'): null, a string JSON.parse
\* throws on, or the JSON of a list of history items.
NoItem == [kind |-> "absent"]
Unreadable == [kind |-> "unreadable"]
StoredList(items) == [kind |-> "list", items |-> items]

\* slice(0, 10)
HistoryLimit == 10

Take(q, n) == IF Len(q) <= n THEN q ELSE SubSeq(q, 1, n)

\* { date, result }; the date is left out.
HistoryItem(data) == [result |-> data]

\* JSON.parse(localStorage.getItem('scan_history') || '[]')
ReadHistory(stored) ==
    IF stored = NoItem THEN [t |-> "return", v |-> <<>>]
    ELSE IF stored = Unreadable THEN [t |-> "throw", v |-> <<>>]
    ELSE [t |-> "return", v |-> stored.items]

\* mutationFn after analyzeImage resolved with data: the history is read,
\* the new item is put in front, the first 10 are stored, and data is
\* returned; an exception of JSON.parse or setItem rejects the mutation.
MutationAfterAnalyze(data) ==
    /\ scanMounted
    /\ mutation.status = "pending"
    /\ baseUrl
    /\ ScanUnchanged
    /\ UNCHANGED <<scanMounted, selectedFile, previewUrl, created, revoked>>
    /\ UNCHANGED storageWritable
    /\ LET history == ReadHistory(scanHistory)
       IN  IF history.t = "throw" \/ ~storageWritable
           THEN /\ mutation' = [status |-> "error", data |-> <<>>]
                /\ UNCHANGED scanHistory
           ELSE /\ scanHistory' =
                      StoredList(Take(<<HistoryItem(data)>> \o history.v,
                                      HistoryLimit))
                /\ mutation' = [status |-> "success", data |-> <<data>>]

\* mutationFn rejected because analyzeImage did.
MutationError ==
    /\ scanMounted
    /\ mutation.status = "pending"
    /\ ScanUnchanged /\ UNCHANGED lvars
    /\ mutation' = [status |-> "error", data |-> <<>>]
    /\ UNCHANGED <<scanMounted, selectedFile, previewUrl, created, revoked>>

-----------------------------------------------------------------------------
(* Contract Schema: payloads of a 200 answer of POST /predict *)

\* Confidence values around the ends of [0,1].
ConfidenceValues == {0 - 1, 0, 500, 1000, 1001}

CropPayloads ==
    {[label |-> Tomato, confidence |-> c] : c \in ConfidenceValues}
        \cup {[confidence |-> 500]}

HealthPayloads(sch) ==
    IF sch = "label"
    THEN {[label |-> Healthy, confidence |-> c] : c \in ConfidenceValues}
    ELSE {[status |-> "diseased", probability |-> c] :
              c \in ConfidenceValues}

DiseasePayloads ==
    {Null} \cup {[label |-> Blight, confidence |-> c] :
                    c \in ConfidenceValues}

\* With the disease key, without it, and with a key the schema does not
\* name.
Payloads(sch) ==
    {[health |-> h, crop |-> c, disease |-> d] :
        h \in HealthPayloads(sch), c \in CropPayloads, d \in DiseasePayloads}
      \cup {[health |-> h, crop |-> c] :
                h \in HealthPayloads(sch), c \in CropPayloads}
      \cup {[health |-> h, crop |-> c, disease |-> d, debug |-> TRUE] :
                h \in HealthPayloads(sch), c \in CropPayloads,
                d \in DiseasePayloads}

PayloadAnswers(sch) == {Http(200, b) : b \in Payloads(sch)}

-----------------------------------------------------------------------------
(* AgriScanApp: inputs *)

\* The values analyzeImage resolves with in AgriScanApp.
ScanResults(sch) ==
    {r \in Predictions(sch) :
        /\ r.crop = [label |-> Tomato, confidence |-> 980]
        /\ Has(r, "disease") /\ r.disease = Null}

\* An item an earlier session stored.
EarlierItem == [result |-> [earlier |-> TRUE]]

\* What 'scan_history' can hold when AgriScanApp starts.
StoredHistories ==
    {NoItem, Unreadable, StoredList(<<>>),
     StoredList([i \in 1..(HistoryLimit - 1) |-> EarlierItem]),
     StoredList([i \in 1..HistoryLimit |-> EarlierItem])}

-----------------------------------------------------------------------------
(* Specifications *)

TransportIdle ==
    /\ pc = "idle" /\ attempt = 0 /\ requests = 0 /\ responses = <<>>
    /\ lastError = <<>> /\ returned = <<>> /\ thrown = <<>>

ProbeIdle == hpc = "idle" /\ probe = <<>> /\ health = <<>>

AppIdle ==
    /\ trainedCrops = <<>> /\ mounts = 0 /\ mpc = "idle"
    /\ lastMetadata = <<>> /\ metadataLookup = <<>> /\ loading = FALSE
    /\ result = <<>> /\ view = [screen |-> "none", shown |-> <<>>]

\* No object URL exists and FileUpload shows no preview.
UrlIdle == created = 0 /\ revoked = <<>> /\ preview = <<>>

\* AgriScanApp before its first mount.
ScanIdle ==
    /\ scanMounted = FALSE /\ selectedFile = FALSE /\ previewUrl = <<>>
    /\ mutation = [status |-> "idle", data |-> <<>>]

\* Nothing is stored under 'scan_history' and storage works.
StorageIdle == scanHistory = NoItem /\ storageWritable = TRUE

\* One analyzeImage call and one checkHealth call of either client.
Init ==
    /\ schema \in {"label", "status"}
    /\ client \in {"retry", "single"}
    /\ baseUrl \in BOOLEAN
    /\ loaded = "ok"
    /\ TransportIdle /\ ProbeIdle /\ AppIdle /\ UrlIdle /\ ScanIdle
    /\ formatted = <<>>
    /\ StorageIdle

Next ==
    \/ Call
    \/ \E a \in Answers : AnswerRetry(a)
    \/ DelayElapsed
    \/ \E a \in Answers : AnswerSingle(a)
    \/ Probe
    \/ \E a \in HealthAnswers : ProbeAnswer(a)

Spec == Init /\ [][Next]_vars

\* App with the registry and the decision engine.
InitApp ==
    /\ schema \in {"label", "status"}
    /\ client = "single"
    /\ baseUrl \in BOOLEAN
    /\ loaded = "ok"
    /\ TransportIdle /\ ProbeIdle /\ AppIdle /\ UrlIdle /\ ScanIdle
    /\ formatted = <<>>
    /\ StorageIdle

NextApp ==
    \/ Mount
    \/ \E md \in Catalogs : MetadataLoaded(md)
    \/ MetadataFailed
    \/ handleFileSelect
    \/ \E data \in Predictions(schema) : AnalyzeResolved(data)
    \/ AnalyzeRejected
    \/ handleClear

\* The Transport Client from the evaluation of its module on, in its
\* three versions.
InitStartup ==
    /\ schema \in {"label", "status"}
    /\ client \in {"retry", "single", "eager"}
    /\ baseUrl \in BOOLEAN
    /\ loaded = "pending"
    /\ TransportIdle /\ ProbeIdle /\ AppIdle /\ UrlIdle /\ ScanIdle
    /\ formatted = <<>>
    /\ StorageIdle

NextStartup ==
    \/ LoadModule
    \/ Call
    \/ \E a \in Answers : AnswerRetry(a)
    \/ DelayElapsed
    \/ \E a \in Answers : AnswerSingle(a)
    \/ Probe
    \/ \E a \in HealthAnswers : ProbeAnswer(a)

SpecStartup == InitStartup /\ [][NextStartup]_vars

\* PredictResponseSchema.parse in the single-request analyzeImage, over
\* the payloads of a 200 answer.
InitSchema ==
    /\ schema \in {"label", "status"}
    /\ client = "single"
    /\ baseUrl = TRUE
    /\ loaded = "ok"
    /\ TransportIdle /\ ProbeIdle /\ AppIdle /\ UrlIdle /\ ScanIdle
    /\ formatted = <<>>
    /\ StorageIdle

NextSchema ==
    \/ Call
    \/ \E a \in PayloadAnswers(schema) : AnswerSingle(a)

SpecSchema == InitSchema /\ [][NextSchema]_vars

\* formatConfidence over its inputs.
NextFormat == \E value \in ConfidenceInputs : ShowConfidence(value)

SpecFormat == InitApp /\ [][NextFormat]_vars

SpecApp == InitApp /\ [][NextApp]_vars

\* App with components/FileUpload.tsx: every file selection is an onDrop.
NextUpload ==
    \/ Mount
    \/ \E md \in Catalogs : MetadataLoaded(md)
    \/ MetadataFailed
    \/ onDrop
    \/ \E data \in Predictions(schema) : AnalyzeResolved(data)
    \/ AnalyzeRejected
    \/ handleClear

SpecUpload == InitApp /\ [][NextUpload]_vars

\* AgriScanApp.
NextScan ==
    \/ ScanMount
    \/ ScanUnmount
    \/ ScanHandleFileSelect
    \/ ScanHandleClear
    \/ ScanHandleAnalyze
    \/ \E data \in ScanResults(schema) : MutationAfterAnalyze(data)
    \/ MutationError

InitScan ==
    /\ schema \in {"label", "status"}
    /\ client = "single"
    /\ baseUrl \in BOOLEAN
    /\ loaded = "ok"
    /\ TransportIdle /\ ProbeIdle /\ AppIdle /\ UrlIdle /\ ScanIdle
    /\ formatted = <<>>
    /\ scanHistory \in StoredHistories
    /\ storageWritable \in BOOLEAN

SpecScan == InitScan /\ [][NextScan]_vars

-----------------------------------------------------------------------------
(* Claims about the Transport Client, checked under Spec *)

Is503(a) == a.kind = "http" /\ a.status = 503

IsContractViolation(a) ==
    a.kind = "http" /\ a.status = 200 /\ ~SchemaOk(schema, a.body)

\* C1: a call of the retrying analyzeImage whose requests are all answered
\* with HTTP 503 issues at most 3 requests, and once the third is answered
\* it has ended with the "Model is still loading" error, having issued
\* exactly 3 requests.
C1_LoadingExhaustsBudget ==
    (client = "retry" /\ \A i \in 1..Len(responses) : Is503(responses[i]))
        => /\ requests <= 3
           /\ Len(responses) = 3
                 => /\ pc = "failed"
                    /\ requests = 3
                    /\ thrown # <<>>
                    /\ IncludesModelLoading(thrown[1].text)

\* C2: a call of the retrying analyzeImage answered 503, 503 has not failed
\* but goes on to a third request, and when that one is answered 200 with a
\* body that conforms to the schema the call has resolved with the parsed
\* third body after exactly 3 requests.
C2_SucceedsOnThirdAttempt ==
    (/\ client = "retry"
     /\ Len(responses) >= 2
     /\ Is503(responses[1])
     /\ Is503(responses[2]))
        => /\ Len(responses) = 2
                 => /\ pc \in {"delay", "inflight"}
                    /\ thrown = <<>>
                    /\ pc = "inflight" => requests = 3
           /\ (/\ Len(responses) = 3
               /\ responses[3].kind = "http"
               /\ responses[3].status = 200
               /\ SchemaOk(schema, responses[3].body))
                 => /\ pc = "done"
                    /\ requests = 3
                    /\ attempt = 3
                    /\ thrown = <<>>
                    /\ returned = <<Parsed(schema, responses[3].body)>>

\* C2, reached: 503, 503, then 200 with the label-profile body; the call
\* returned that body without the key the schema does not name.
C2_Witness ==
    /\ client = "retry"
    /\ schema = "label"
    /\ pc = "done"
    /\ Len(responses) = 3
    /\ Is503(responses[1])
    /\ Is503(responses[2])
    /\ responses[3] = Http(200, BodyLabel)
    /\ requests = 3
    /\ returned = <<[health |-> [label |-> Healthy, confidence |-> 950],
                     crop |-> [label |-> Tomato, confidence |-> 990]]>>

\* C3: whenever an attempt of analyzeImage is answered with a body that
\* fails PredictResponseSchema, that attempt is the last one: the call has
\* ended with the validation error and no further request was issued.
C3_ContractViolationNeverRetried ==
    \A i \in 1..Len(responses) :
        IsContractViolation(responses[i])
            => /\ Len(responses) = i
               /\ requests = i
               /\ pc = "failed"
               /\ thrown # <<>>
               /\ thrown[1].name = "ZodError"

IsNotRetriedStatus(a) ==
    /\ a.kind = "http"
    /\ a.status \in {413, 429} \/ (a.status >= 500 /\ a.status # 503)

\* C4: when a request of analyzeImage is answered with HTTP 413, 429 or a
\* 5xx other than 503, the call issued exactly one request and has ended
\* with an error.
C4_ClientAndServerErrorsNotRetried ==
    (responses # <<>> /\ IsNotRetriedStatus(responses[1]))
        => /\ requests = 1
           /\ pc = "failed"
           /\ thrown # <<>>

\* C5: checkHealth reports ready exactly for HTTP 200, loading exactly for
\* HTTP 503, and offline for every other end of GET /health and for a
\* missing base URL; a 503 is never reported as offline.
C5_HealthThreeOutcomes ==
    (client = "retry" /\ hpc = "done")
        => IF probe = <<>>
           THEN ~baseUrl /\ health[1].status = "offline"
           ELSE LET a == probe[1]
                    st == health[1].status
                IN  /\ st = "ok" <=> (a.kind = "http" /\ a.status = 200)
                    /\ st = "loading" <=> Is503(a)
                    /\ st = "offline" <=>
                          ~(a.kind = "http" /\ a.status \in {200, 503})
                    /\ health[1].ready <=> st = "ok"

-----------------------------------------------------------------------------
(* Claims about the Label Registry and the Decision Engine, checked under
   SpecApp *)

\* The trained crop labels of the catalog a construction was given; none
\* for createMetadataLookup(null).
WhitelistOf(metadata) ==
    IF metadata = <<>> THEN {}
    ELSE {toLowerCase(metadata[1].crops[i].label) :
             i \in 1..Len(metadata[1].crops)}

\* C7: once the registry construction of a mount has run, the three lookup
\* tables and the trained-crop whitelist, as their readers see them, are
\* those of the argument of the latest construction: of the catalog, or
\* empty tables and no whitelist after createMetadataLookup(null).
C7_RegistryReflectsLatestConstruction ==
    mpc = "settled"
        => /\ metadataLookup = <<MetadataLookup(lastMetadata)>>
           /\ hasTrainedCropMetadata <=> WhitelistOf(lastMetadata) # {}
           /\ \A l \in CropLabels :
                 isKnownCrop(JsString(l))
                     <=> toLowerCase(l) \in WhitelistOf(lastMetadata)

\* The crop of r fails the domain check: a whitelist is available and does
\* not hold the crop label (compared case-insensitively).
DomainCheckFails(r) ==
    /\ trainedCrops # <<>>
    /\ trainedCrops[1] # {}
    /\ toLowerCase(r.crop.label) \notin trainedCrops[1]

GatesPass(r) ==
    /\ r.crop.confidence >= 550
    /\ IF schema = "label" THEN ~DomainCheckFails(r)
                           ELSE r.crop.label # NON_CROP

HealthIndicatesDiseased(r) ==
    IF schema = "label" THEN r.health.label = Diseased
                        ELSE r.health.status = "diseased"

HealthIndicatesHealthy(r) ==
    IF schema = "label" THEN r.health.label \in {Healthy, NEGATIVE_CLASS_LABEL}
                        ELSE r.health.status = "healthy"

DiseaseMissing(r) == ~Has(r, "disease") \/ r.disease = Null

\* C9: a shown prediction that passes both gates, whose health says
\* diseased and whose disease is null or absent, is rendered as the
\* incomplete card: not as healthy, not as diseased, and without a disease
\* section.
C9_DiseasedWithoutDiseaseIsIncomplete ==
    (/\ view.screen = "result"
     /\ GatesPass(result[1])
     /\ HealthIndicatesDiseased(result[1])
     /\ DiseaseMissing(result[1]))
        => /\ view.shown[1].card = "incomplete"
           /\ ~view.shown[1].diseaseSection

\* C10: a shown prediction whose health says healthy is never rendered as
\* diseased and shows no disease, whatever its disease field holds; in the
\* whitelist profile its active disease is null.
C10_HealthyNeverDiseased ==
    (view.screen = "result" /\ HealthIndicatesHealthy(result[1]))
        => /\ view.shown[1].card \in {"healthy", "unsupported"}
           /\ ~view.shown[1].diseaseSection
           /\ view.shown[1].diseaseName = <<>>
           /\ schema = "label" => getActiveDisease(result[1]) = Null

\* C10, reached: a healthy prediction that carries a disease object passed
\* the gates and is shown as healthy.
C10_Witness ==
    /\ view.screen = "result"
    /\ HealthIndicatesHealthy(result[1])
    /\ Has(result[1], "disease")
    /\ result[1].disease = DiseasePrediction
    /\ view.shown[1].card = "healthy"

\* C11 as claimed: a shown prediction whose crop label is NON_CROP is
\* rendered as the unsupported card, in the sentinel profile and in the
\* whitelist profile with or without a whitelist.
C11_SentinelAlwaysUnsupported ==
    (view.screen = "result" /\ result[1].crop.label = NON_CROP)
        => view.shown[1].card = "unsupported"

\* C11 as amended: a shown prediction whose crop label is NON_CROP is
\* rendered as the unsupported card in the sentinel profile whatever its
\* other fields; in the whitelist profile it is rendered as the unsupported
\* card exactly when it fails the domain check of an available whitelist
\* or its crop confidence is below 0.55.
C11_SentinelUnsupportedUnlessFailOpen ==
    (view.screen = "result" /\ result[1].crop.label = NON_CROP)
        => IF schema = "status"
           THEN view.shown[1].card = "unsupported"
           ELSE view.shown[1].card = "unsupported"
                   <=> \/ DomainCheckFails(result[1])
                       \/ result[1].crop.confidence < 550

\* C11, reached: NON_CROP with confidence 0.98 and a diseased health with a
\* disease object is shown as unsupported in the sentinel profile.
C11_Witness ==
    /\ schema = "status"
    /\ view.screen = "result"
    /\ result[1].crop.label = NON_CROP
    /\ result[1].crop.confidence = 980
    /\ result[1].health.status = "diseased"
    /\ result[1].disease = DiseasePrediction
    /\ view.shown[1].card = "unsupported"

\* The crop of r passes the domain check of the profile in use.
DomainCheckPasses(r) ==
    IF schema = "label" THEN ~DomainCheckFails(r)
                        ELSE r.crop.label # NON_CROP

\* C12: in both profiles, a shown prediction that passes the domain check
\* is rendered as the unsupported card exactly when its crop confidence is
\* below 0.55, and with a crop confidence below 0.55 it is rendered neither
\* as healthy nor as diseased.
C12_LowConfidenceIsUnsupported ==
    (view.screen = "result" /\ DomainCheckPasses(result[1]))
        => /\ view.shown[1].card = "unsupported"
                 <=> result[1].crop.confidence < 550
           /\ result[1].crop.confidence < 550
                 => view.shown[1].card \notin {"healthy", "diseased"}

\* No whitelist is available: trainedCrops is null or an empty Set.
NoWhitelist == trainedCrops = <<>> \/ trainedCrops[1] = {}

\* C13: in the whitelist profile, while no whitelist is available a shown
\* prediction is rendered as the unsupported card if and only if its crop
\* confidence is below 0.55, whatever its crop label.
C13_FailOpen ==
    (schema = "label" /\ view.screen = "result" /\ NoWhitelist)
        => (view.shown[1].card = "unsupported"
               <=> result[1].crop.confidence < 550)

\* C13, reached: the metadata fetch failed, no whitelist exists, and a crop
\* that no catalog lists is shown with its result at confidence 0.55.
C13_Witness ==
    /\ schema = "label"
    /\ mpc = "settled"
    /\ lastMetadata = <<>>
    /\ trainedCrops = <<>>
    /\ view.screen = "result"
    /\ result[1].crop.label = Wheat
    /\ result[1].crop.confidence = 550
    /\ view.shown[1].card \in {"healthy", "diseased"}

\* C13, reached as well: the catalog loaded had no crops.
C13_WitnessEmptyCatalog ==
    /\ schema = "label"
    /\ mpc = "settled"
    /\ trainedCrops = <<{}>>
    /\ view.screen = "result"
    /\ result[1].crop.confidence = 980
    /\ view.shown[1].card \in {"healthy", "diseased"}

\* The arguments isKnownCrop is tried with.
LabelArguments ==
    {JsNull, JsUndefined, JsString(<<>>)}
        \cup {JsString(l) : l \in CropLabels \cup {BellPepper}}

\* C14: while the registry has no whitelist (trainedCrops never
\* initialised, left null by a failed load, or built from an empty crop
\* collection), isKnownCrop answers false for every argument, null,
\* undefined and the empty string included.
C14_NoWhitelistKnowsNoCrop ==
    NoWhitelist => \A l \in LabelArguments : ~isKnownCrop(l)

\* C14, reached: a catalog without crops was loaded, so trainedCrops is an
\* empty Set, and isKnownCrop denies a label and null.
C14_Witness ==
    /\ mpc = "settled"
    /\ lastMetadata # <<>>
    /\ lastMetadata[1].crops = <<>>
    /\ trainedCrops = <<{}>>
    /\ ~isKnownCrop(JsString(Tomato))
    /\ ~isKnownCrop(JsNull)

\* The normalized keys of the crop labels of a catalog.
NormalizedCropKeys(md) ==
    {normalizeKey(md.crops[i].label) : i \in 1..Len(md.crops)}

\* C15: for a registry built from a catalog, isKnownCrop(L) holds exactly
\* when the normalized key of L is the normalized key of a crop label of
\* the catalog, and it agrees with MetadataLookup.isKnownCrop of the lookup
\* built from the same catalog.
C15_KnownCropIsNormalizedMembership ==
    (mpc = "settled" /\ lastMetadata # <<>>)
        => \A l \in CropLabels \cup {BellPepper} :
              /\ isKnownCrop(JsString(l))
                    <=> normalizeKey(l) \in NormalizedCropKeys(lastMetadata[1])
              /\ isKnownCrop(JsString(l))
                    <=> isKnownCropMethod(metadataLookup[1], l)

\* Queries of getCropInfo: the prediction labels and other spellings.
CropQueries ==
    CropLabels \cup {BellPepper, <<"b", " ", "p">>, <<"B", "-", "P">>,
                     <<"b", "_", " ", "p">>}

\* The entry the registry stores for a catalog item.
EntryOf(item) ==
    [displayName |-> formatLabel(item.label),
     description |-> IF Has(item, "description")
                     THEN <<item.description>> ELSE <<>>]

\* C16: for a registry built from a catalog, getCropInfo(Q) returns, for
\* every query Q whose normalized key is that of a catalog crop label, the
\* entry of the last catalog item with that key; "b p", "B-P" and "b_ p"
\* resolve to the entry of the catalog label "B_P".
C16_LookupRoundTrip ==
    (mpc = "settled" /\ lastMetadata # <<>>)
        => LET crops == lastMetadata[1].crops
               lookup == metadataLookup[1]
               Same(q) == {k \in 1..Len(crops) :
                              normalizeKey(crops[k].label) = normalizeKey(q)}
               Last(q) == CHOOSE k \in Same(q) : \A m \in Same(q) : m <= k
           IN  /\ \A q \in CropQueries :
                     Same(q) # {}
                        => getCropInfo(lookup, q) = EntryOf(crops[Last(q)])
               /\ (\E i \in 1..Len(crops) : crops[i].label = BellPepper)
                     => \A q \in {<<"b", " ", "p">>, <<"B", "-", "P">>,
                                  <<"b", "_", " ", "p">>} :
                           getCropInfo(lookup, q).displayName
                              = <<"B", " ", "P">>

\* C16, reached: the catalog lists "Tom" and then "tom" (with a
\* description); the query "Tom" gets the entry of the later item.
C16_Witness ==
    /\ mpc = "settled"
    /\ lastMetadata # <<>>
    /\ Len(lastMetadata[1].crops) = 2
    /\ lastMetadata[1].crops[1].label = Tomato
    /\ lastMetadata[1].crops[2].label = TomatoLower
    /\ getCropInfo(metadataLookup[1], Tomato)
          = [displayName |-> <<"T", "o", "m">>, description |-> <<"a crop">>]

-----------------------------------------------------------------------------
(* Claims, checked under SpecUpload and SpecScan *)

\* The object URL a mounted component currently holds as its preview.
Held == {u \in 1..created : preview = <<u>> \/ previewUrl = <<u>>}

\* C17: every preview object URL is released: a URL created for a file
\* preview that no component holds any more has been revoked.
C17_EveryPreviewUrlReleased ==
    \A u \in 1..created : u \in Held \/ revoked[u] >= 1

-----------------------------------------------------------------------------
(* Claims, checked under Spec: the errors of analyzeImage *)

\* The answer the call ended with.
LastResponse == responses[Len(responses)]

\* A non-2xx, non-503 answer whose body is { detail: string }.
IsDetailError(a) ==
    /\ a.kind = "http"
    /\ ~(a.status >= 200 /\ a.status < 300)
    /\ a.status # 503
    /\ Has(a.body, "detail")

\* C18: when analyzeImage fails on a non-2xx, non-503 answer with body
\* { detail }, the error it rejects with has detail as its message and
\* carries the HTTP status of the answer.
C18_DetailBecomesMessageWithStatus ==
    (pc = "failed" /\ responses # <<>> /\ IsDetailError(LastResponse))
        => /\ thrown[1].text = LastResponse.body.detail
           /\ thrown[1].status = <<LastResponse.status>>

\* What the user is told when analyzeImage has failed.
Shown == mapApiErrorToMessage(thrown[1])

\* C19: a failure of analyzeImage reaches the user with the classification
\* of its cause: no HTTP response gives the offline message as a warning,
\* a status of 500 or more the overload message as an error, 413 the
\* too-large message as a warning, 429 the rate-limited message as a
\* warning.
C19_FailureClassified ==
    (pc = "failed" /\ responses # <<>>)
        => LET a == LastResponse
           IN  /\ a.kind # "http"
                    => Shown.message = MsgOffline
                          /\ Shown.severity = "warning"
               /\ (a.kind = "http" /\ a.status >= 500)
                    => Shown.message = MsgOverload
                          /\ Shown.severity = "error"
               /\ (a.kind = "http" /\ a.status = 413)
                    => Shown.message = MsgTooLarge
                          /\ Shown.severity = "warning"
               /\ (a.kind = "http" /\ a.status = 429)
                    => Shown.message = MsgRateLimited
                          /\ Shown.severity = "warning"

\* C20: a schema violation is reported with a fixed message: what the
\* user is told when the answer violated the contract schema is not the
\* validator's own account of the parse failure.
C20_ContractViolationMessageIsFixed ==
    (pc = "failed" /\ responses # <<>>
        /\ IsContractViolation(LastResponse))
        => Shown.message # MsgZodIssues

-----------------------------------------------------------------------------
(* Claims, checked under SpecStartup *)

\* The offline outcome of checkHealth, in either of its result types.
IsOfflineOutcome(h) == h \in {Offline, [ready |-> FALSE]}

\* C21: without a base URL from the environment the Transport Client
\* degrades to offline mode: the evaluation of its module does not throw,
\* checkHealth resolves to the offline outcome, analyzeImage fails with
\* an error, and no HTTP request is issued.
C21_NoBaseUrlDegradesToOffline ==
    ~baseUrl
        => /\ loaded # "threw"
           /\ hpc # "inflight" /\ probe = <<>>
           /\ hpc = "done" => IsOfflineOutcome(health[1])
           /\ requests = 0 /\ pc \in {"idle", "failed"}
           /\ pc = "failed" => thrown # <<>>

-----------------------------------------------------------------------------
(* Claims, checked under SpecSchema *)

\* The payload PredictResponseSchema.parse was applied to.
Payload == LastResponse.body

\* The call has applied PredictResponseSchema.parse to a payload.
ParseApplied == pc \in {"done", "failed"} /\ responses # <<>>

\* The confidence values a payload carries.
ConfidencesOf(b) ==
    {b.crop.confidence}
        \cup (IF Has(b.health, "confidence") THEN {b.health.confidence}
              ELSE {b.health.probability})
        \cup (IF Has(b, "disease") /\ b.disease # Null
              THEN {b.disease.confidence} ELSE {})

OutsideUnitRange(b) == \E v \in ConfidencesOf(b) : v < 0 \/ v > 1000

\* A payload with the shape of the profile, whatever its numbers are.
HasShape(sch, b) ==
    /\ Has(b.crop, "label")
    /\ sch = "status" => Has(b, "disease")

\* C22: PredictResponseSchema rejects every payload with a crop, health
\* or non-null disease confidence outside [0,1], never accepting it with
\* the value clamped, and accepts every payload of the right shape with
\* all of them inside [0,1], returning each field the schema names as it
\* came (the whole payload when it has no other key).
C22_RangeCheckedNotClamped ==
    ParseApplied
        => /\ OutsideUnitRange(Payload)
                => pc = "failed" /\ returned = <<>>
                      /\ thrown[1].name = "ZodError"
           /\ (HasShape(schema, Payload) /\ ~OutsideUnitRange(Payload))
                => /\ pc = "done"
                   /\ \A k \in (DOMAIN Payload) \cap PredictResponseKeys :
                         returned[1][k] = Payload[k]
                   /\ (DOMAIN Payload) \subseteq PredictResponseKeys
                         => returned[1] = Payload

\* A payload rejected for a crop confidence just above 1, and nothing else.
C22_Witness ==
    /\ ParseApplied
    /\ pc = "failed"
    /\ HasShape(schema, Payload)
    /\ ConfidencesOf(Payload) = {1001, 1000}
    /\ Payload.crop.confidence = 1001

\* A payload that is valid apart from what it says about disease.
ValidApartFromDisease(b) == Has(b.crop, "label") /\ ~OutsideUnitRange(b)

DiseaseIsNull(b) == Has(b, "disease") /\ b.disease = Null

DiseaseIsMissing(b) == ~Has(b, "disease")

\* C23 as stated: PredictResponseSchema accepts disease: null and rejects
\* a payload without the disease key as a contract violation.
C23_MissingDiseaseRejected ==
    (ParseApplied /\ ValidApartFromDisease(Payload))
        => /\ DiseaseIsNull(Payload) => pc = "done"
           /\ DiseaseIsMissing(Payload)
                => pc = "failed" /\ thrown[1].name = "ZodError"

\* C23, amended: both profiles accept disease: null; the status profile
\* rejects a payload without the disease key as a contract violation,
\* and the label profile accepts it and returns a value without the key.
C23_MissingDiseaseRejectedByStatusProfile ==
    (ParseApplied /\ ValidApartFromDisease(Payload))
        => /\ DiseaseIsNull(Payload)
                => pc = "done" /\ returned[1].disease = Null
           /\ (DiseaseIsMissing(Payload) /\ schema = "status")
                => pc = "failed" /\ thrown[1].name = "ZodError"
           /\ (DiseaseIsMissing(Payload) /\ schema = "label")
                => pc = "done" /\ ~Has(returned[1], "disease")

\* The status profile has rejected a payload only for its missing
\* disease key.
C23_Witness ==
    /\ ParseApplied
    /\ schema = "status"
    /\ ValidApartFromDisease(Payload)
    /\ DiseaseIsMissing(Payload)
    /\ pc = "failed"

-----------------------------------------------------------------------------
(* Claims, checked under SpecFormat *)

\* round(min(max(v, 0), 1) * 100) with halves rounded up, v in thousandths
RoundHalfUpPercent(v) ==
    LET c == IF v < 0 THEN 0 ELSE IF v > 1000 THEN 1000 ELSE v
    IN  (c * 100 + 500) \div 1000

\* C24: formatConfidence(v) shows round(min(max(v,0),1) * 100) percent
\* with halves rounded up: a whole number in 0..100, 100 for values above
\* 1, 0 for values below 0, 96 for 0.955 and 13 for 0.125.
C24_FormatConfidenceRoundsHalfUp ==
    formatted # <<>>
        => LET v == formatted[1].value
               p == formatted[1].percent
           IN  /\ p \in 0..100
               /\ p = RoundHalfUpPercent(v)
               /\ v > 1000 => p = 100
               /\ v < 0 => p = 0
               /\ v = 955 => p = 96
               /\ v = 125 => p = 13

-----------------------------------------------------------------------------
(* Claims, checked under SpecApp: ambiguity, totality, stability *)

\* The prediction shown, with another crop confidence.
WithCropConfidence(r, c) == [r EXCEPT !.crop.confidence = c]

\* C25: in the whitelist profile, for a shown prediction that passes the
\* domain and confidence gates, the disclaimer is shown exactly when the
\* crop confidence is below 0.98, the result is displayed (never the
\* unsupported card), and the card and its disease section are those of
\* the same prediction with any other crop confidence that passes the
\* gate.
C25_AmbiguityIsAdvisory ==
    (view.screen = "result" /\ schema = "label" /\ GatesPass(result[1]))
        => /\ view.shown[1].disclaimer = (result[1].crop.confidence < 980)
           /\ view.shown[1].card \in {"healthy", "diseased", "incomplete"}
           /\ view.shown[1].cropName # <<>>
           /\ \A c \in {x \in CropConfidences : x >= UI_MIN_CROP_CONFIDENCE} :
                LET other == AnalysisResultWhitelist(
                                 WithCropConfidence(result[1], c),
                                 metadataLookup)
                IN  /\ other.card = view.shown[1].card
                    /\ other.diseaseSection = view.shown[1].diseaseSection
                    /\ other.diseaseName = view.shown[1].diseaseName

\* A healthy prediction at crop confidence 0.98 is shown without the
\* disclaimer while metadata is loaded.
C25_Witness ==
    /\ view.screen = "result" /\ schema = "label"
    /\ GatesPass(result[1])
    /\ metadataLookup # <<>>
    /\ result[1].crop.confidence = 980
    /\ view.shown[1].card = "healthy"
    /\ ~view.shown[1].disclaimer

-----------------------------------------------------------------------------
(* Claims, checked under Spec: the order of the attempts *)

\* At most one request is in flight, at most maxRetries are issued, and
\* the request in flight is that of the attempt with its number.
OneRequestAtATime ==
    /\ requests <= maxRetries
    /\ requests - Len(responses) \in {0, 1}
    /\ pc = "inflight" <=> requests = Len(responses) + 1
    /\ (client = "retry" /\ pc = "inflight") => attempt = requests

\* A step that issues a request issues one: the first from the idle call,
\* every later one after the previous request has ended and the delay
\* between two attempts has elapsed.
RequestAfterDelay ==
    requests' # requests
        => /\ requests' = requests + 1
           /\ pc' = "inflight"
           /\ \/ requests = 0 /\ pc = "idle"
              \/ requests >= 1 /\ pc = "delay" /\ Len(responses) = requests

\* C26: within one analyzeImage call the requests are issued one after
\* another in attempt order 1, 2, 3: a request is issued only after the
\* previous one has been answered or has failed and one delay has
\* elapsed, at most one is in flight, and never more than 3 are issued.
C26_AttemptsAreSequential == []OneRequestAtATime /\ [][RequestAfterDelay]_vars

\* The third request is in flight after two attempts have ended.
C26_Witness ==
    /\ client = "retry"
    /\ pc = "inflight"
    /\ attempt = 3 /\ requests = 3 /\ Len(responses) = 2

Outcomes == {"unsupported", "healthy", "diseased", "incomplete"}

\* C27: the decision is total and single-valued: whatever schema-valid
\* prediction is shown and whatever the registry holds, exactly one
\* outcome is on display, it is one of Unsupported, Healthy, Diseased and
\* Incomplete, and it is the outcome the Decision Engine gives for the
\* prediction and the registry as they are now.
C27_DecisionTotalAndSingleValued ==
    /\ view.screen = "result"
          => /\ Len(view.shown) = 1
             /\ view.shown[1].card \in Outcomes
             /\ view.shown = Render.shown
    /\ view.screen # "result" => view.shown = <<>>

\* The last branch of the sentinel profile has decided: a prediction
\* whose status is neither healthy nor diseased is shown as incomplete.
C27_Witness ==
    /\ view.screen = "result" /\ schema = "status"
    /\ result[1].health.status = "non_crop"
    /\ result[1].crop.label # NON_CROP
    /\ view.shown[1].card = "incomplete"

\* A step during which the same prediction stays on display.
SamePredictionShown ==
    /\ view.screen = "result" /\ view'.screen = "result"
    /\ result' = result

\* C28: in the whitelist profile the outcome shown for a prediction does
\* not change while that prediction stays on display, whatever the
\* metadata fetch does meanwhile.
C28_ShownOutcomeIsStable ==
    [][(schema = "label" /\ SamePredictionShown)
          => view'.shown[1].card = view.shown[1].card]_vars

-----------------------------------------------------------------------------
(* Claims, checked under SpecScan *)

\* The step of the mutation in which analyzeImage has resolved with data.
AnalyzeImageSucceeds(data) == MutationAfterAnalyze(data)

\* C29: whenever analyzeImage succeeds the mutation resolves with its
\* result, whether the stored history is absent, empty, unreadable or
\* unwritable; and where the history can be read and written it then
\* holds at most 10 items, the new result first and the earlier items
\* after it in their order.
C29_HistoryIsNotTheTransportOfTruth ==
    [][\A data \in ScanResults(schema) :
          AnalyzeImageSucceeds(data)
              => /\ mutation'.status = "success"
                 /\ mutation'.data = <<data>>
                 /\ (storageWritable /\ scanHistory # Unreadable)
                       => /\ scanHistory'.kind = "list"
                          /\ Len(scanHistory'.items) <= HistoryLimit
                          /\ scanHistory'.items[1] = HistoryItem(data)
                          /\ \A i \in 2..Len(scanHistory'.items) :
                                scanHistory'.items[i]
                                    = ReadHistory(scanHistory).v[i - 1]]_vars

\* C30: no preview object URL is revoked more than once: each URL that
\* createObjectURL returned has been passed to revokeObjectURL once when
\* AgriScanApp holds it no more, and never twice.
C30_EachUrlRevokedOnce ==
    \A u \in 1..created :
        /\ revoked[u] <= 1
        /\ previewUrl # <<u>> => revoked[u] = 1
=============================================================================
